---- MODULE Spec2Model ----
(***************************************************************************)
(* The LuatPlayground component (src/src/components/LuatPlayground/        *)
(* index.js): the module-level WASM singleton and its loader, the template *)
(* registry / render bridge, the single-slot compilation cache and the     *)
(* React state of every playground instance mounted on a page.             *)
(*                                                                         *)
(* JavaScript is single threaded: a handler runs to completion before the  *)
(* next task starts.  runCode is modelled in steps (its start, the clear   *)
(* call, each add call, the render loop, its return); no other handler may *)
(* start while a run is in progress (EventLoopFree).                       *)
(*                                                                         *)
(* The engine behind the WASM boundary is external: its status codes and   *)
(* render outcomes are chosen nondeterministically.  A clear_templates or  *)
(* add_template call that returns non-zero leaves the registry as it was.  *)
(* SpecBridge follows the render loop call by call through                 *)
(* renderWithError (handle, copy, free, parse); the other specifications   *)
(* take the loop as one step in which the engine's text always parses.     *)
(* SpecProps lets the second instance be mounted with any of several       *)
(* combinations of the code / files / autoRun props.  liveViews counts the *)
(* editor views created and not destroyed, autoRuns the runs the auto-run  *)
(* effect started.                                                         *)
(* Not modelled: the timing displays (compileTime, renderTime), the output *)
(* tab and its read-only HTML viewer, formatHtml, the colour mode.         *)
(***************************************************************************)
EXTENDS Naturals, Sequences, FiniteSets, TLC

\* ------------------------------------------------------------------ bounds
\* Number of playground instances on the page (they share the singleton).
NumInst == 2

Inst == 1..NumInst

VARIABLES
    \* per playground instance
    props,           \* the props the page passes: code, files, autoRun
    autoRuns,        \* history: runs started by the auto-run effect
    liveViews        \* editor views created and not destroyed

pageVars == << props, autoRuns, liveViews >>

\* ------------------------------------------------------------------ values
Null == "<null>"

MainName == "main.luat"
OtherName == "Button.luat"

\* Template sources the user can type.
Codes == {"", "x"}

\* The props of instance i: the first instance is a multi-file example (as
\* HomepageShowcase passes them), the others use the single `code` prop.
MultiFiles == << [name |-> MainName, code |-> "x"], [name |-> OtherName, code |-> ""] >>

ShowcaseProps(i) ==
    IF i = 1
    THEN [code |-> "", files |-> MultiFiles, autoRun |-> TRUE]
    ELSE [code |-> "x", files |-> << >>, autoRun |-> TRUE]

\* The props the component function was called with (113-120).
Props(i) == props[i]

\* (the files prop taken as given)
FilesAsGiven(i) == Props(i).files

\* getInitialFiles (lines 122-130)
getInitialFiles(i) ==
    IF Len(Props(i).files) > 0 THEN Props(i).files
    ELSE IF Props(i).code # "" THEN << [name |-> MainName, code |-> Props(i).code] >>
    ELSE << [name |-> MainName, code |-> ""] >>

RECURSIVE JoinBar(_)
JoinBar(parts) ==
    IF Len(parts) = 0 THEN ""
    ELSE IF Len(parts) = 1 THEN parts[1]
    ELSE parts[1] \o "|" \o JoinBar(Tail(parts))

\* (a hash that leaves the code out)
HashOfNames(fs) ==
    JoinBar([k \in 1..Len(fs) |-> fs[k].name])

\* getFilesHash (lines 305-307): files.map(f => `${f.name}:${f.code}`).join('|')
getFilesHash(fs) ==
    JoinBar([k \in 1..Len(fs) |-> fs[k].name \o ":" \o fs[k].code])

\* ------------------------------------------------- the engine's registry
\* The external module's registry: a function from template names to sources.
EmptyRegistry == [n \in {} |-> ""]

RegistryAdd(reg, path, source) ==
    [n \in (DOMAIN reg) \cup {path} |-> IF n = path THEN source ELSE reg[n]]

\* The registry that holds exactly the files fs.
RECURSIVE RegistryOf(_)
RegistryOf(fs) ==
    IF Len(fs) = 0 THEN EmptyRegistry
    ELSE RegistryAdd(RegistryOf(SubSeq(fs, 1, Len(fs) - 1)), fs[Len(fs)].name, fs[Len(fs)].code)

\* The HTML the engine produces for an entry under a registry: opaque; it
\* shows the source registered under the entry's name.
EngineHtml(entry, reg) ==
    IF entry \in DOMAIN reg THEN "<html>" \o reg[entry] \o "</html>"
    ELSE "<html></html>"

VARIABLES
    \* module-level singleton state (lines 40-41) and the page
    luatModule,      \* 0 (null) or the id of the module instance
    luatLoading,     \* Null, "pending", "fulfilled" or "rejected"
    loadPc,          \* where the loader's async body is suspended
    loadError,       \* the rejection's message
    windowModule,    \* window.Module is the factory function
    scriptTags,      \* script elements appended (fetches of luat-wasm.js)
    createCalls,     \* createModule calls
    initCalls,       \* luat_init calls
    initResult,      \* Null before luat_init returned, else "0" or "1"
    registry,        \* the engine's template registry
    \* per playground instance (React state and refs)
    mounted, loadWait, luat, loading, error, output, cached,
    files, activeTab, lastCompiledRef,
    editorView,      \* editorViewRef.current is a live view
    editorInits,     \* initEditor calls suspended at their imports
    autoRunDue,      \* the auto-run effect is scheduled
    \* the run in progress
    run,             \* per instance: the position and locals of runCode
    calls,           \* WASM calls of the run in progress or last finished
    \* history, for stating the properties
    compiledFiles,   \* the files whose hash lastCompiledRef holds
    since,           \* what happened to the instance since its last run began
                     \* ("late": it mounted after the load had failed)
    \* inside luat.renderWithError (84-93), when followed call by call
    bridgePc,        \* "idle", or the statement reached: "called", "copied", "freed"
    resultPtr,       \* the handle luat_render_with_error returned (0: null)
    resultJson,      \* the string UTF8ToString copied out
    heap,            \* the engine's live result buffers: handle -> JSON text
    bridgeLog        \* what the bridge did during the run in progress

loaderVars == << luatModule, luatLoading, loadPc, loadError, windowModule,
                 scriptTags, createCalls, initCalls, initResult >>
instVars == << mounted, loadWait, luat, loading, error, output, cached,
               files, activeTab, lastCompiledRef,
               editorView, editorInits, autoRunDue >>
runVars == << run, calls, registry >>
histVars == << compiledFiles, since >>
bridgeVars == << bridgePc, resultPtr, resultJson, heap, bridgeLog >>
vars == << loaderVars, instVars, runVars, histVars, bridgeVars, pageVars >>

\* ------------------------------------------------------------ initial state
\* The locals of runCode while no run of the instance is in progress.
NoResult == [success |-> FALSE, html |-> Null, error |-> Null]

IdleRun == [pc |-> "idle", fs |-> << >>, hash |-> "", changed |-> FALSE,
            idx |-> 0, outcome |-> "-", result |-> NoResult,
            outBefore |-> "", errBefore |-> Null, cachedBefore |-> FALSE,
            lastBefore |-> Null, since |-> "start", edited |-> {}]

\* The state after construction, whatever the props are.
InitState ==
    /\ autoRuns = [i \in Inst |-> 0]
    /\ liveViews = [i \in Inst |-> 0]
    /\ luatModule = 0
    /\ luatLoading = Null
    /\ loadPc = "none"
    /\ loadError = Null
    /\ windowModule = FALSE
    /\ scriptTags = 0
    /\ createCalls = 0
    /\ initCalls = 0
    /\ initResult = Null
    /\ registry = EmptyRegistry
    /\ mounted = [i \in Inst |-> FALSE]
    /\ loadWait = [i \in Inst |-> "none"]
    /\ luat = [i \in Inst |-> 0]
    /\ loading = [i \in Inst |-> TRUE]
    /\ error = [i \in Inst |-> Null]
    /\ output = [i \in Inst |-> ""]
    /\ cached = [i \in Inst |-> FALSE]
    /\ files = [i \in Inst |-> getInitialFiles(i)]
    /\ activeTab = [i \in Inst |-> 1]
    /\ lastCompiledRef = [i \in Inst |-> Null]
    /\ editorView = [i \in Inst |-> FALSE]
    /\ editorInits = [i \in Inst |-> 0]
    /\ autoRunDue = [i \in Inst |-> FALSE]
    /\ run = [i \in Inst |-> IdleRun]
    /\ calls = << >>
    /\ compiledFiles = [i \in Inst |-> << >>]
    /\ since = [i \in Inst |-> "start"]
    /\ bridgePc = "idle"
    /\ resultPtr = 0
    /\ resultJson = Null
    /\ heap = [h \in {} |-> ""]
    /\ bridgeLog = << >>

\* The showcase page.
Init ==
    /\ props = [i \in Inst |-> ShowcaseProps(i)]
    /\ InitState

\* --------------------------------------------------------- the event loop
\* (a runCode that awaits between its calls)
EventLoopYields == TRUE

\* runCode has no await: from its first statement to its return no other
\* task runs.  A handler starts only when no run is in progress.
EventLoopFree == \A j \in Inst : run[j].pc = "idle"

\* ------------------------------------------------------ the module loader
\* line 47: if (luatModule) return luatModule
ModuleLoaded == luatModule # 0

\* (a loader that does not look at luatLoading)
NeverInFlight == FALSE

\* (a loader that starts over once the promise has settled)
OnlyWhilePending == luatLoading = "pending"

\* line 48: if (luatLoading) return luatLoading
LoadInFlight == luatLoading # Null

\* (a loader that drops luat_init's result)
InitNeverFails(result) == FALSE

\* line 72: if (result !== 0) throw
InitFailed(result) == result # "0"

\* loadLuatModule() as called by the load effect of instance i (lines 46-100,
\* 158-177), up to its first suspension.
loadLuatModule(i) ==
    IF ModuleLoaded
    THEN /\ loadWait' = [loadWait EXCEPT ![i] = "module"]
         /\ UNCHANGED << luatLoading, loadPc, scriptTags, createCalls >>
    ELSE IF LoadInFlight
    THEN /\ loadWait' = [loadWait EXCEPT ![i] = "shared"]
         /\ UNCHANGED << luatLoading, loadPc, scriptTags, createCalls >>
    ELSE /\ loadWait' = [loadWait EXCEPT ![i] = "shared"]
         /\ luatLoading' = "pending"
         /\ IF windowModule
            THEN \* lines 53-56: the factory is already there; createModule is called
                 /\ createCalls' = createCalls + 1
                 /\ loadPc' = "create"
                 /\ UNCHANGED scriptTags
            ELSE \* lines 57-61: append the script element
                 /\ scriptTags' = scriptTags + 1
                 /\ loadPc' = "script"
                 /\ UNCHANGED createCalls

\* The component mounts: the load effect (158-177) and the editor effect
\* (180-224) run; the auto-run effect (245-249) finds luat null.
Mount(i) ==
    /\ EventLoopFree
    /\ ~mounted[i]
    /\ mounted' = [mounted EXCEPT ![i] = TRUE]
    /\ loadLuatModule(i)
    /\ editorInits' = [editorInits EXCEPT ![i] = 1]
    /\ since' = [since EXCEPT ![i] = IF luatLoading = "rejected" THEN "late" ELSE @]
    /\ UNCHANGED << luatModule, loadError, windowModule, initCalls, initResult,
                    luat, loading, error, output, cached, 
                    files, activeTab, lastCompiledRef, editorView, autoRunDue >>
    /\ UNCHANGED << runVars, compiledFiles, bridgeVars, pageVars >>

\* script.onload (line 59): the await resumes and createModule is called (66).
ScriptOnload ==
    /\ EventLoopFree
    /\ loadPc = "script"
    /\ windowModule' = TRUE
    /\ createCalls' = createCalls + 1
    /\ loadPc' = "create"
    /\ UNCHANGED << luatModule, luatLoading, loadError, scriptTags, initCalls, initResult >>
    /\ UNCHANGED << instVars, runVars, histVars, bridgeVars, pageVars >>

\* script.onerror (line 60)
ScriptOnerror ==
    /\ EventLoopFree
    /\ loadPc = "script"
    /\ loadPc' = "failed"
    /\ luatLoading' = "rejected"
    /\ loadError' = "Failed to load luat-wasm.js"
    /\ UNCHANGED << luatModule, windowModule, scriptTags, createCalls, initCalls, initResult >>
    /\ UNCHANGED << instVars, runVars, histVars, bridgeVars, pageVars >>

\* createModule resolves (66); luat_init is called (71) and returns result.
ModuleCreated(result) ==
    /\ EventLoopFree
    /\ loadPc = "create"
    /\ initCalls' = initCalls + 1
    /\ initResult' = result
    /\ IF InitFailed(result)
       THEN /\ loadPc' = "failed"
            /\ luatLoading' = "rejected"
            /\ loadError' = "Failed to initialize Luat engine"
            /\ UNCHANGED luatModule
       ELSE /\ loadPc' = "done"
            /\ luatModule' = createCalls
            /\ luatLoading' = "fulfilled"
            /\ UNCHANGED loadError
    /\ UNCHANGED << windowModule, scriptTags, createCalls >>
    /\ UNCHANGED << instVars, runVars, histVars, bridgeVars, pageVars >>

\* createModule rejects (66): the binary could not be fetched or instantiated.
ModuleCreateFailed ==
    /\ EventLoopFree
    /\ loadPc = "create"
    /\ loadPc' = "failed"
    /\ luatLoading' = "rejected"
    /\ loadError' = "createModule failed"
    /\ UNCHANGED << luatModule, windowModule, scriptTags, createCalls, initCalls, initResult >>
    /\ UNCHANGED << instVars, runVars, histVars, bridgeVars, pageVars >>

\* (an effect that does not look at the autoRun prop)
IgnoresAutoRun(i) == TRUE

\* line 246: if (luat && autoRun && files.length > 0), luat just set
EffectRuns(i) == Props(i).autoRun /\ Len(files[i]) > 0

\* The promise the instance waits on is fulfilled: .then (162-167).  The
\* render that follows schedules the auto-run effect (245-249).
LoadThen(i) ==
    /\ EventLoopFree
    /\ \/ loadWait[i] = "module"
       \/ loadWait[i] = "shared" /\ luatLoading = "fulfilled"
    /\ loadWait' = [loadWait EXCEPT ![i] = "settled"]
    /\ luat' = [luat EXCEPT ![i] = luatModule]
    /\ loading' = [loading EXCEPT ![i] = FALSE]
    /\ autoRunDue' = [autoRunDue EXCEPT ![i] = EffectRuns(i)]
    /\ UNCHANGED << mounted, error, output, cached, 
                    files, activeTab, lastCompiledRef, editorView, editorInits >>
    /\ UNCHANGED << loaderVars, runVars, histVars, bridgeVars, pageVars >>

\* (a catch that leaves the spinner on)
SpinnerStays == TRUE

\* line 172: setLoading(false)
LoadingAfterFailure == FALSE

\* The promise is rejected: .catch (168-174).
LoadCatch(i) ==
    /\ EventLoopFree
    /\ loadWait[i] = "shared" /\ luatLoading = "rejected"
    /\ loadWait' = [loadWait EXCEPT ![i] = "settled"]
    /\ error' = [error EXCEPT ![i] = "Failed to load Luat: " \o loadError]
    /\ loading' = [loading EXCEPT ![i] = LoadingAfterFailure]
    /\ UNCHANGED << mounted, luat, output, cached, 
                    files, activeTab, lastCompiledRef, editorView, editorInits, autoRunDue >>
    /\ UNCHANGED << loaderVars, runVars, histVars, bridgeVars, pageVars >>

\* ------------------------------------------------------------- the editor
\* Pending asynchronous editor initialisations per instance (a bound: the
\* user may switch tabs faster than the imports resolve, without limit).
MaxEditorInits == 2

\* Editor views alive at once per instance (a bound: every late
\* initialisation adds one).
MaxViews == 2

\* An initEditor call resumes after its imports (193-216): it creates a view
\* on the active file and stores it in editorViewRef, whatever the ref
\* holds by then.
EditorReady(i) ==
    /\ EventLoopFree
    /\ editorInits[i] > 0
    /\ liveViews[i] < MaxViews
    /\ editorInits' = [editorInits EXCEPT ![i] = @ - 1]
    /\ editorView' = [editorView EXCEPT ![i] = TRUE]
    /\ liveViews' = [liveViews EXCEPT ![i] = @ + 1]
    /\ UNCHANGED << props, autoRuns >>
    /\ UNCHANGED << mounted, loadWait, luat, loading, error, output, cached,
                    files, activeTab, lastCompiledRef, autoRunDue >>
    /\ UNCHANGED << loaderVars, runVars, histVars, bridgeVars >>

\* (a listener that writes the text into every file)
EveryFile(fs, tabIndex, newCode) ==
    [k \in 1..Len(fs) |-> [fs[k] EXCEPT !.code = newCode]]

\* The update listener (203-211): the file at the active tab takes the
\* editor's new text; every other file is kept.
WithCode(fs, tabIndex, newCode) ==
    [k \in 1..Len(fs) |-> IF k = tabIndex THEN [fs[k] EXCEPT !.code = newCode] ELSE fs[k]]

\* The user types in the editor: the document becomes newCode.
Edit(i, newCode) ==
    /\ EventLoopFree
    /\ mounted[i] /\ liveViews[i] > 0 /\ ~autoRunDue[i]
    /\ newCode # files[i][activeTab[i]].code
    /\ files' = [files EXCEPT ![i] = WithCode(files[i], activeTab[i], newCode)]
    /\ since' = [since EXCEPT ![i] = IF @ = "ran" THEN "edited"
                                      ELSE IF @ = "aborted" THEN "editedAborted"
                                      ELSE @]
    /\ UNCHANGED << mounted, loadWait, luat, loading, error, output, cached,
                    activeTab, lastCompiledRef,
                    editorView, editorInits, autoRunDue >>
    /\ UNCHANGED << loaderVars, runVars, compiledFiles, bridgeVars, pageVars >>

\* lines 187-190 (and the effect's cleanup, 221): the view editorViewRef
\* holds is destroyed; a view it no longer holds is not.
ViewsDestroyed(i) == IF editorView[i] THEN 1 ELSE 0

\* A tab button is clicked (435): setActiveTab; the editor effect destroys
\* the view (187-190) and suspends at its imports.
SwitchTab(i, t) ==
    /\ EventLoopFree
    /\ mounted[i] /\ ~autoRunDue[i]
    /\ Len(files[i]) > 1
    /\ t \in 1..Len(files[i]) /\ t # activeTab[i]
    /\ editorInits[i] < MaxEditorInits
    /\ activeTab' = [activeTab EXCEPT ![i] = t]
    /\ editorView' = [editorView EXCEPT ![i] = FALSE]
    /\ editorInits' = [editorInits EXCEPT ![i] = @ + 1]
    /\ liveViews' = [liveViews EXCEPT ![i] = @ - ViewsDestroyed(i)]
    /\ UNCHANGED << mounted, loadWait, luat, loading, error, output, cached,
                    files, lastCompiledRef, autoRunDue >>
    /\ UNCHANGED << loaderVars, runVars, histVars, bridgeVars, props, autoRuns >>

\* reset (364-383).  The dispatch at 369 fires the update listener while
\* activeTabRef still holds the tab of the last render; its setFiles updater
\* is applied after setFiles(initial).
\* (a reset that keeps the hash)
KeepsRef(i) == lastCompiledRef[i]

\* line 382: lastCompiledRef.current = null
InvalidatedRef(i) == Null

ResetFiles(i) ==
    LET initial == getInitialFiles(i)
        docChanged == files[i][activeTab[i]].code # "" \/ initial[1].code # ""
    IN  IF editorView[i] /\ docChanged
        THEN WithCode(initial, activeTab[i], initial[1].code)
        ELSE initial

\* The Reset button (458-464) has no disabled attribute.
ResetDisabled(i) == FALSE

Reset(i) ==
    /\ EventLoopFree
    /\ mounted[i] /\ ~autoRunDue[i]
    /\ ~ResetDisabled(i)
    /\ activeTab[i] # 1 => editorInits[i] < MaxEditorInits
    /\ files' = [files EXCEPT ![i] = ResetFiles(i)]
    /\ activeTab' = [activeTab EXCEPT ![i] = 1]
    /\ IF activeTab[i] # 1
       THEN /\ editorView' = [editorView EXCEPT ![i] = FALSE]
            /\ editorInits' = [editorInits EXCEPT ![i] = @ + 1]
            /\ liveViews' = [liveViews EXCEPT ![i] = @ - ViewsDestroyed(i)]
       ELSE UNCHANGED << editorView, editorInits, liveViews >>
    /\ error' = [error EXCEPT ![i] = Null]
    /\ output' = [output EXCEPT ![i] = ""]
    /\ cached' = [cached EXCEPT ![i] = FALSE]
    /\ lastCompiledRef' = [lastCompiledRef EXCEPT ![i] = InvalidatedRef(i)]
    /\ compiledFiles' = [compiledFiles EXCEPT ![i] = << >>]
    /\ since' = [since EXCEPT ![i] = "reset"]
    /\ UNCHANGED << mounted, loadWait, luat, loading, autoRunDue >>
    /\ UNCHANGED << loaderVars, runVars, bridgeVars, props, autoRuns >>

\* ---------------------------------------------------------------- runCode
\* Render samples per run (line 340).
RenderSamples == 3

\* What a WASM call can return.
StatusCodes == {"0", "1"}
RenderOutcomes == {"ok", "err", "null"}

Call(i, op, arg, rc) == [inst |-> i, op |-> op, arg |-> arg, rc |-> rc]

\* The positions at which file sequence b differs from a; {0} when they
\* are not sequences of the same names.
DiffersAt(a, b) ==
    IF Len(a) = Len(b) /\ \A k \in 1..Len(a) : a[k].name = b[k].name
    THEN {k \in 1..Len(a) : a[k].code # b[k].code}
    ELSE {0}

\* line 310: if (!luat) return
RunGuard(i) == luat[i] # 0

\* (a run that never takes the cached path)
AlwaysChanged(last, currentHash) == TRUE

\* line 318: const codeChanged = lastCompiledRef.current !== currentHash
codeChanged(last, currentHash) == last # currentHash

\* (an entry that is always the first file)
FirstFile(fs) == fs[1]

\* line 335: currentFiles.find(f => f.name === 'main.luat') || currentFiles[0]
entryFile(fs) ==
    IF \E k \in 1..Len(fs) : fs[k].name = MainName
    THEN fs[CHOOSE k \in 1..Len(fs) :
                /\ fs[k].name = MainName
                /\ \A m \in 1..(k - 1) : fs[m].name # MainName]
    ELSE fs[1]

\* runCode from its first line to the first WASM call (309-320, 330-332).
RunStart(i) ==
    LET fs == files[i]
        currentHash == getFilesHash(fs)
        changed == codeChanged(lastCompiledRef[i], currentHash)
    IN  /\ RunGuard(i)
        /\ run' = [run EXCEPT ![i] =
                     [pc |-> IF changed THEN "clear" ELSE "render",
                      fs |-> fs, hash |-> currentHash, changed |-> changed,
                      idx |-> 1, outcome |-> "-", result |-> NoResult,
                      outBefore |-> output[i], errBefore |-> error[i],
                      cachedBefore |-> cached[i],
                      lastBefore |-> lastCompiledRef[i], since |-> since[i],
                      edited |-> DiffersAt(compiledFiles[i], fs)]]
        /\ cached' = [cached EXCEPT ![i] = IF changed THEN @ ELSE TRUE]
        /\ since' = [since EXCEPT ![i] = IF changed THEN "aborted" ELSE "ran"]
        /\ UNCHANGED calls

\* The auto-run effect (245-249) after the render that set luat.
AutoRun(i) ==
    /\ EventLoopFree
    /\ autoRunDue[i]
    /\ autoRunDue' = [autoRunDue EXCEPT ![i] = FALSE]
    /\ autoRuns' = [autoRuns EXCEPT ![i] = @ + 1]
    /\ RunStart(i)
    /\ UNCHANGED << mounted, loadWait, luat, loading, error, output,
                    files, activeTab, lastCompiledRef,
                    editorView, editorInits >>
    /\ UNCHANGED << loaderVars, registry, compiledFiles, bridgeVars, props, liveViews >>

\* (a Run button without the disabled attribute)
RunAlwaysEnabled(i) == FALSE

\* line 448: disabled={loading || !luat}
RunDisabled(i) == loading[i] \/ luat[i] = 0

\* The Run button (445-448) is clicked.
ClickRun(i) ==
    /\ EventLoopFree
    /\ mounted[i] /\ ~autoRunDue[i]
    /\ ~RunDisabled(i)
    /\ RunStart(i)
    /\ UNCHANGED << mounted, loadWait, luat, loading, error, output,
                    files, activeTab, lastCompiledRef,
                    editorView, editorInits, autoRunDue >>
    /\ UNCHANGED << loaderVars, registry, compiledFiles, bridgeVars, pageVars >>

\* (a failing path that leaves the output)
KeepsOutput(i) == output[i]

\* line 354: setOutput('') when the result is not a success
FailureOutput(i) == ""

\* (a catch block that leaves the output)
KeepsOutputOnThrow(i) == output[i]

\* line 358: setOutput('') in the catch block
CatchOutput(i) == ""

\* The catch block (356-361).
Catch(i, message) ==
    /\ error' = [error EXCEPT ![i] = message]
    /\ output' = [output EXCEPT ![i] = CatchOutput(i)]
    /\ run' = [run EXCEPT ![i].pc = "done"]

\* (a clearTemplates that checks the status, as addTemplate does)
ClearChecked(rc) == rc # "0"

\* lines 81-83: the status luat_clear_templates returns is dropped
ClearFailed(rc) == FALSE

\* luat.clearTemplates() (322, 81-83).
ClearStep(i, rc) ==
    /\ run[i].pc = "clear"
    /\ calls' = Append(calls, Call(i, "clear", "", rc))
    /\ registry' = IF rc = "0" THEN EmptyRegistry ELSE registry
    /\ IF ClearFailed(rc)
       THEN Catch(i, "Failed to clear templates")
       ELSE /\ run' = [run EXCEPT ![i].pc = "add"]
            /\ UNCHANGED << error, output >>
    /\ UNCHANGED << mounted, loadWait, luat, loading, cached, files, activeTab,
                    lastCompiledRef, editorView, editorInits, autoRunDue >>
    /\ UNCHANGED << loaderVars, histVars, bridgeVars, pageVars >>

\* (an addTemplate that drops the status, as clearTemplates does)
AddNeverFails(rc) == FALSE

\* line 79: if (r !== 0) throw
AddFailed(rc) == rc # "0"

\* (a loop that ends after the first file)
StopsAfterFirst(i) == TRUE

\* line 323: for (const file of currentFiles) ends after the last file
LoopDone(i) == run[i].idx = Len(run[i].fs)

\* luat.addTemplate(file.name, file.code) for the next file (323-325,
\* 77-80); after the last one the hash is recorded (326-329).
AddStep(i, rc) ==
    LET file == run[i].fs[run[i].idx]
        last == LoopDone(i)
    IN  /\ run[i].pc = "add"
        /\ calls' = Append(calls, Call(i, "add", file.name, rc))
        /\ registry' = IF rc = "0" THEN RegistryAdd(registry, file.name, file.code)
                       ELSE registry
        /\ IF AddFailed(rc)
           THEN /\ Catch(i, "Failed to add template: " \o file.name)
                /\ UNCHANGED << lastCompiledRef, cached, compiledFiles, since >>
           ELSE IF last
           THEN /\ lastCompiledRef' = [lastCompiledRef EXCEPT ![i] = run[i].hash]
                /\ compiledFiles' = [compiledFiles EXCEPT ![i] = run[i].fs]
                /\ cached' = [cached EXCEPT ![i] = FALSE]
                /\ since' = [since EXCEPT ![i] = "ran"]
                /\ run' = [run EXCEPT ![i].pc = "render"]
                /\ UNCHANGED << error, output >>
           ELSE /\ run' = [run EXCEPT ![i].idx = @ + 1]
                /\ UNCHANGED << lastCompiledRef, cached, compiledFiles, since,
                                error, output >>
        /\ UNCHANGED << mounted, loadWait, luat, loading, files, activeTab,
                        editorView, editorInits, autoRunDue >>
        /\ UNCHANGED << loaderVars, bridgeVars, pageVars >>

\* luat.renderWithError(entry, {}) (84-93): what the bridge returns for the
\* engine's outcome (a null handle, a success result, an error result).
renderWithError(entry, outcome) ==
    IF outcome = "null"
    THEN [success |-> FALSE, html |-> Null, error |-> "Internal error"]
    ELSE IF outcome = "ok"
    THEN [success |-> TRUE, html |-> EngineHtml(entry, registry), error |-> Null]
    ELSE [success |-> FALSE, html |-> Null, error |-> "Template error: " \o entry]

\* The sampling loop (338-344): RenderSamples calls, the last result kept
\* (outcome is the engine's answer to the last call); then the result is
\* shown (346-355).
RECURSIVE RenderCalls(_, _, _)
RenderCalls(i, entry, n) ==
    IF n = 0 THEN << >>
    ELSE Append(RenderCalls(i, entry, n - 1), Call(i, "render", entry, "-"))

\* (a success that leaves the error banner)
KeepsError(i) == error[i]

\* line 351: setError(null)
SuccessError(i) == Null

\* lines 349-355: the last sample's result is shown
ShowResult(i, result) ==
    IF result.success
    THEN /\ output' = [output EXCEPT ![i] = result.html]
         /\ error' = [error EXCEPT ![i] = SuccessError(i)]
    ELSE /\ error' = [error EXCEPT ![i] = result.error]
         /\ output' = [output EXCEPT ![i] = FailureOutput(i)]

\* (a loop of one sample)
SingleCall(i, entry) == << Call(i, "render", entry, "-") >>

\* lines 340-344: for (let i = 0; i < 3; i++) result = luat.renderWithError(...)
SampleCalls(i, entry) == RenderCalls(i, entry, RenderSamples)

RenderStep(i, outcome) ==
    LET entry == entryFile(run[i].fs).name
        result == renderWithError(entry, outcome)
    IN  /\ run[i].pc = "render"
        /\ calls' = calls \o SampleCalls(i, entry)
        /\ run' = [run EXCEPT ![i].pc = "done", ![i].outcome = outcome, ![i].result = result]
        /\ ShowResult(i, result)
        /\ UNCHANGED << mounted, loadWait, luat, loading, cached, files, activeTab,
                        lastCompiledRef, editorView, editorInits, autoRunDue >>
        /\ UNCHANGED << loaderVars, registry, histVars, bridgeVars, pageVars >>

\* runCode returns; React renders the queued state.
RunReturn(i) ==
    /\ run[i].pc = "done"
    /\ run' = [run EXCEPT ![i] = IdleRun]
    /\ calls' = << >>
    /\ bridgeLog' = << >>
    /\ UNCHANGED << loaderVars, instVars, registry, histVars >>
    /\ UNCHANGED << bridgePc, resultPtr, resultJson, heap, pageVars >>

\* ------------------------------------- the render bridge, call by call
\* The sampling loop (338-344) and luat.renderWithError (84-93) statement
\* by statement.  A result buffer is identified by its allocation, so a
\* handle is never reused within a run.
EngineAnswers == {"null", "ok", "err", "badjson"}

Event(op, ptr) == [op |-> op, ptr |-> ptr]

EventsOf(op) == {k \in 1..Len(bridgeLog) : bridgeLog[k].op = op}

FreshHandle == 1 + Cardinality({k \in EventsOf("ccall") : bridgeLog[k].ptr # 0})

\* Module.UTF8ToString(ptr): the text of a live buffer
UTF8ToString(ptr) == IF ptr \in DOMAIN heap THEN heap[ptr] ELSE ""

\* Module.ccall('luat_render_with_error', ...) (85): the engine answers with
\* a null handle or with a buffer holding its JSON text.
SampleCall(i, answer) ==
    LET ptr == IF answer = "null" THEN 0 ELSE FreshHandle
    IN  /\ run[i].pc = "render" /\ bridgePc = "idle"
        /\ calls' = Append(calls, Call(i, "render", entryFile(run[i].fs).name, "-"))
        /\ resultPtr' = ptr
        /\ heap' = IF ptr = 0 THEN heap
                   ELSE [h \in (DOMAIN heap) \cup {ptr} |-> IF h = ptr THEN answer ELSE heap[h]]
        /\ bridgeLog' = Append(bridgeLog, Event("ccall", ptr))
        /\ bridgePc' = "called"
        /\ UNCHANGED << run, registry, resultJson, pageVars >>
        /\ UNCHANGED << loaderVars, instVars, histVars >>

\* (a loop that ends after its first sample)
FirstSampleIsLast == TRUE

\* line 340: for (let i = 0; i < 3; i++)
LastSample == Cardinality(EventsOf("ccall")) = RenderSamples

\* The bridge hands result back to the loop (341); after the last sample
\* the result is shown (346-355).
BridgeReturn(i, answer, result) ==
    /\ bridgePc' = "idle"
    /\ IF LastSample
       THEN /\ run' = [run EXCEPT ![i].pc = "done", ![i].outcome = answer, ![i].result = result]
            /\ ShowResult(i, result)
       ELSE /\ run' = [run EXCEPT ![i].outcome = answer, ![i].result = result]
            /\ UNCHANGED << error, output >>
    /\ UNCHANGED << mounted, loadWait, luat, loading, cached, files, activeTab,
                    lastCompiledRef, editorView, editorInits, autoRunDue >>
    /\ UNCHANGED << loaderVars, registry, calls, histVars >>

\* (a bridge that takes every handle for a buffer)
NullNeverSeen(ptr) == FALSE

\* line 86: if (resultPtr === 0)
NullHandle(ptr) == ptr = 0

\* lines 86-88: the null handle is answered with the internal error
SampleNull(i) ==
    /\ run[i].pc = "render" /\ bridgePc = "called"
    /\ NullHandle(resultPtr)
    /\ bridgeLog' = Append(bridgeLog, Event("return", resultPtr))
    /\ BridgeReturn(i, "null", renderWithError(entryFile(run[i].fs).name, "null"))
    /\ UNCHANGED << resultPtr, resultJson, heap, pageVars >>

\* line 89: const resultJson = Module.UTF8ToString(resultPtr)
SampleCopy(i) ==
    /\ run[i].pc = "render" /\ bridgePc = "called"
    /\ ~NullHandle(resultPtr)
    /\ resultJson' = UTF8ToString(resultPtr)
    /\ bridgeLog' = Append(bridgeLog, Event("UTF8ToString", resultPtr))
    /\ bridgePc' = "copied"
    /\ UNCHANGED << resultPtr, heap, pageVars >>
    /\ UNCHANGED << loaderVars, instVars, runVars, histVars >>

\* (a bridge that returns without releasing the buffer)
SkipsFree(ptr) == << >>

\* line 90: Module._luat_free_string(resultPtr)
FreeCalls(ptr) == << Event("free", ptr) >>

SampleFree(i) ==
    /\ run[i].pc = "render" /\ bridgePc = "copied"
    /\ heap' = [h \in (DOMAIN heap) \ {FreeCalls(resultPtr)[k].ptr : k \in 1..Len(FreeCalls(resultPtr))}
                  |-> heap[h]]
    /\ bridgeLog' = bridgeLog \o FreeCalls(resultPtr)
    /\ bridgePc' = "freed"
    /\ UNCHANGED << resultPtr, resultJson, pageVars >>
    /\ UNCHANGED << loaderVars, instVars, runVars, histVars >>

\* line 91: return JSON.parse(resultJson); text that is not JSON makes it
\* throw, out of the bridge and into runCode's catch block.
SampleParse(i) ==
    /\ run[i].pc = "render" /\ bridgePc = "freed"
    /\ IF resultJson \in {"ok", "err"}
       THEN /\ bridgeLog' = bridgeLog \o << Event("parse", resultPtr), Event("return", resultPtr) >>
            /\ BridgeReturn(i, resultJson, renderWithError(entryFile(run[i].fs).name, resultJson))
       ELSE /\ bridgeLog' = bridgeLog \o << Event("parse", resultPtr), Event("throw", resultPtr) >>
            /\ bridgePc' = "idle"
            /\ Catch(i, "SyntaxError")
            /\ UNCHANGED << mounted, loadWait, luat, loading, cached, files, activeTab,
                            lastCompiledRef, editorView, editorInits, autoRunDue >>
            /\ UNCHANGED << loaderVars, registry, calls, histVars >>
    /\ UNCHANGED << resultPtr, resultJson, heap, pageVars >>

\* ------------------------------------------------------------------- Next
Next ==
    \/ \E i \in Inst : Mount(i)
    \/ ScriptOnload
    \/ ScriptOnerror
    \/ \E result \in StatusCodes : ModuleCreated(result)
    \/ ModuleCreateFailed
    \/ \E i \in Inst : LoadThen(i)
    \/ \E i \in Inst : LoadCatch(i)
    \/ \E i \in Inst : EditorReady(i)
    \/ \E i \in Inst, newCode \in Codes : Edit(i, newCode)
    \/ \E i \in Inst : Reset(i)
    \/ \E i \in Inst : AutoRun(i)
    \/ \E i \in Inst : ClickRun(i)
    \/ \E i \in Inst, rc \in StatusCodes : ClearStep(i, rc)
    \/ \E i \in Inst, rc \in StatusCodes : AddStep(i, rc)
    \/ \E i \in Inst, outcome \in RenderOutcomes : RenderStep(i, outcome)
    \/ \E i \in Inst : RunReturn(i)

Spec == Init /\ [][Next]_vars

\* A page with the multi-file playground alone, whose user also switches
\* between the file tabs.
NextTabs ==
    \/ Mount(1)
    \/ ScriptOnload
    \/ ScriptOnerror
    \/ \E result \in StatusCodes : ModuleCreated(result)
    \/ ModuleCreateFailed
    \/ LoadThen(1)
    \/ LoadCatch(1)
    \/ EditorReady(1)
    \/ \E newCode \in Codes : Edit(1, newCode)
    \/ \E t \in 1..Len(files[1]) : SwitchTab(1, t)
    \/ Reset(1)
    \/ AutoRun(1)
    \/ ClickRun(1)
    \/ \E rc \in StatusCodes : ClearStep(1, rc)
    \/ \E rc \in StatusCodes : AddStep(1, rc)
    \/ \E outcome \in RenderOutcomes : RenderStep(1, outcome)
    \/ RunReturn(1)

\* Scheduling: a settled promise's reactions are microtasks, which run as
\* soon as the running task ends and before any later event is handled;
\* runCode is synchronous and runs to its end.
RunProgress ==
    \E i \in Inst :
        \/ \E rc \in StatusCodes : ClearStep(i, rc) \/ AddStep(i, rc)
        \/ \E outcome \in RenderOutcomes : RenderStep(i, outcome)
        \/ RunReturn(i)

Fairness ==
    /\ WF_vars(RunProgress)
    /\ \A i \in Inst : SF_vars(LoadThen(i)) /\ SF_vars(LoadCatch(i))

FairSpec == Spec /\ Fairness

SpecTabs == Init /\ [][NextTabs]_vars

\* A page with one playground whose props are any of these: code and files
\* omitted (their defaults '' and []), the code shorthand, files with
\* main.luat first, with main.luat second, and without main.luat.
CardName == "Card.luat"

PropsChoices ==
    { [code |-> "", files |-> << >>, autoRun |-> TRUE],
      [code |-> "x", files |-> << >>, autoRun |-> FALSE],
      [code |-> "", autoRun |-> FALSE,
       files |-> << [name |-> MainName, code |-> ""], [name |-> OtherName, code |-> ""] >>],
      [code |-> "", autoRun |-> TRUE,
       files |-> << [name |-> OtherName, code |-> "x"], [name |-> MainName, code |-> ""] >>],
      [code |-> "x", autoRun |-> TRUE,
       files |-> << [name |-> CardName, code |-> ""] >>] }

\* What its user types: nothing, or text made of the separators and a name.
TypedCodes == {"", "|Button.luat:"}

InitProps ==
    /\ \E p \in PropsChoices :
          props = [i \in Inst |-> IF i = 2 THEN p ELSE ShowcaseProps(i)]
    /\ InitState

NextProps ==
    \/ Mount(2)
    \/ ScriptOnload
    \/ ScriptOnerror
    \/ \E result \in StatusCodes : ModuleCreated(result)
    \/ ModuleCreateFailed
    \/ LoadThen(2)
    \/ LoadCatch(2)
    \/ EditorReady(2)
    \/ \E newCode \in TypedCodes : Edit(2, newCode)
    \/ \E t \in 1..Len(files[2]) : SwitchTab(2, t)
    \/ Reset(2)
    \/ AutoRun(2)
    \/ ClickRun(2)
    \/ \E rc \in StatusCodes : ClearStep(2, rc)
    \/ \E rc \in StatusCodes : AddStep(2, rc)
    \/ \E outcome \in RenderOutcomes : RenderStep(2, outcome)
    \/ RunReturn(2)

SpecProps == InitProps /\ [][NextProps]_vars

\* A page with the single-file playground alone, its render bridge followed
\* call by call.
NextBridge ==
    \/ Mount(2)
    \/ ScriptOnload
    \/ ScriptOnerror
    \/ \E result \in StatusCodes : ModuleCreated(result)
    \/ ModuleCreateFailed
    \/ LoadThen(2)
    \/ LoadCatch(2)
    \/ EditorReady(2)
    \/ \E newCode \in Codes : Edit(2, newCode)
    \/ Reset(2)
    \/ AutoRun(2)
    \/ ClickRun(2)
    \/ \E rc \in StatusCodes : ClearStep(2, rc)
    \/ \E rc \in StatusCodes : AddStep(2, rc)
    \/ \E answer \in EngineAnswers : SampleCall(2, answer)
    \/ SampleNull(2)
    \/ SampleCopy(2)
    \/ SampleFree(2)
    \/ SampleParse(2)
    \/ RunReturn(2)

SpecBridge == Init /\ [][NextBridge]_vars

\* ------------------------------------------------------------- properties
Running == {i \in Inst : run[i].pc # "idle"}

Finished(i) == run[i].pc = "done"

\* The files of i's run differ from the last compiled set in one file's code.
OneFileEdited(i) == Cardinality(run[i].edited) = 1 /\ 0 \notin run[i].edited

Ops(cs) == [k \in 1..Len(cs) |-> << cs[k].op, cs[k].arg >>]

CallsOf(op) == {k \in 1..Len(calls) : calls[k].op = op}

FailedAdds == {k \in CallsOf("add") : calls[k].rc # "0"}

IsPrefix(a, b) == Len(a) <= Len(b) /\ a = SubSeq(b, 1, Len(a))

\* clear_templates, then add_template for every file in file order
FullCycle(fs) == << << "clear", "" >> >> \o [k \in 1..Len(fs) |-> << "add", fs[k].name >>]

Renders(fs) == [k \in 1..RenderSamples |-> << "render", entryFile(fs).name >>]

\* The hash of the templates the registry holds, taken in the file order of
\* instance i; Null when the registry does not hold exactly i's file names.
HashOfRegistry(i) ==
    IF DOMAIN registry = {files[i][k].name : k \in 1..Len(files[i])}
    THEN getFilesHash([k \in 1..Len(files[i]) |->
                          [name |-> files[i][k].name, code |-> registry[files[i][k].name]]])
    ELSE Null

\* C1: however many instances call loadLuatModule, also while the first load
\* is in flight, one script fetch, one createModule and one luat_init are
\* performed, and every instance that got a module got the same one.
C1_SingleLoad ==
    /\ scriptTags <= 1 /\ createCalls <= 1 /\ initCalls <= 1
    /\ (\E i \in Inst : mounted[i]) => scriptTags = 1
    /\ luatModule # 0 => createCalls = 1 /\ initCalls = 1
    /\ \A i \in Inst : luat[i] # 0 => luat[i] = luatModule
    /\ \A i, j \in Inst : luat[i] # 0 /\ luat[j] # 0 => luat[i] = luat[j]

\* A second instance joined the load in flight and the first already holds
\* the module.
C1_Witness ==
    \E i, j \in Inst :
        /\ i # j /\ luat[i] # 0
        /\ loadWait[j] = "shared" /\ luatLoading = "fulfilled"

\* C2: between runs, every instance's lastCompiledRef is null or is the
\* hash of exactly the templates the registry holds.
C2_CacheMatchesRegistry ==
    EventLoopFree =>
        \A i \in Inst : lastCompiledRef[i] = Null \/ lastCompiledRef[i] = HashOfRegistry(i)

\* C3 as stated: a run with no edit and no reset since the instance's
\* previous run reports cached and calls neither clear nor add.
C3_Original ==
    \A i \in Inst :
        Finished(i) /\ run[i].since \in {"ran", "aborted"} =>
            cached[i] /\ CallsOf("clear") = {} /\ CallsOf("add") = {}

\* C3 amended: ... provided the previous run got past its registry phase
\* (it rebuilt fully or was cached itself).
C3_CachedAfterCompletedRun ==
    \A i \in Inst :
        run[i].pc # "idle" /\ run[i].since = "ran" =>
            /\ ~run[i].changed
            /\ cached[i]
            /\ CallsOf("clear") = {} /\ CallsOf("add") = {}

C3_Witness ==
    \E i \in Inst : Finished(i) /\ run[i].since = "ran" /\ Len(calls) = RenderSamples

\* C4 as stated: after an edit that leaves exactly one file different from
\* the last compiled set, the run reports not cached, and when it renders
\* it has performed the full clear-and-add cycle before.
C4_Original ==
    \A i \in Inst :
        Finished(i) /\ OneFileEdited(i) =>
            /\ ~cached[i]
            /\ CallsOf("render") # {} =>
                  Ops(calls) = FullCycle(run[i].fs) \o Renders(run[i].fs)

\* C4 amended: such a run always takes the rebuild path (clear first, then
\* the adds in file order); when no add_template fails it reports not cached
\* and renders after the full cycle; when one fails it stops there without
\* rendering and the cached flag keeps its value (possibly "cached").
C4_RebuildAfterEdit ==
    \A i \in Inst :
        Finished(i) /\ OneFileEdited(i) =>
            /\ run[i].changed
            /\ IF FailedAdds = {}
               THEN /\ ~cached[i]
                    /\ Ops(calls) = FullCycle(run[i].fs) \o Renders(run[i].fs)
               ELSE /\ cached[i] = run[i].cachedBefore
                    /\ IsPrefix(Ops(calls), FullCycle(run[i].fs))
                    /\ FailedAdds = {Len(calls)}

\* The second file was the one edited, after a cached run.
C4_Witness ==
    \E i \in Inst :
        /\ Finished(i) /\ run[i].edited = {2}
        /\ FailedAdds = {} /\ run[i].cachedBefore /\ ~cached[i]

\* C5: the first run after reset() is never cached, whatever the files hash
\* to: it clears the registry and re-adds the files in order (every file,
\* unless an add_template fails and aborts the run).
C5_NotCachedAfterReset ==
    \A i \in Inst :
        run[i].pc # "idle" /\ run[i].since = "reset" =>
            /\ run[i].changed
            /\ ~cached[i]
            /\ Finished(i) =>
                  /\ Len(calls) > 0 /\ Ops(calls)[1] = << "clear", "" >>
                  /\ IF FailedAdds = {}
                     THEN Ops(calls) = FullCycle(run[i].fs) \o Renders(run[i].fs)
                     ELSE IsPrefix(Ops(calls), FullCycle(run[i].fs))

\* The files at the run hash to what was compiled before the reset.
C5_Witness ==
    \E i \in Inst :
        /\ Finished(i) /\ run[i].since = "reset" /\ FailedAdds = {}
        /\ run[i].hash = getFilesHash(getInitialFiles(i))
        /\ registry = RegistryOf(run[i].fs)
        /\ Len(run[i].fs) > 1

\* C6: no render call is made before luat_init returned 0; a run is in
\* progress only with a module handle, and a handle exists only after a
\* successful load.
C6_NoRenderBeforeInit ==
    /\ CallsOf("render") # {} => initResult = "0"
    /\ \A i \in Inst : run[i].pc # "idle" => luat[i] # 0
    /\ \A i \in Inst : luat[i] # 0 => initResult = "0" /\ luatLoading = "fulfilled"

C6_Witness == CallsOf("render") # {}

\* C7: in a run that rebuilds, the calls are clear, then one add per file in
\* file order, then the renders: no render before every add has returned.
C7_RebuildBeforeRender ==
    \A i \in Running :
        run[i].changed =>
            /\ IsPrefix(Ops(calls), FullCycle(run[i].fs) \o Renders(run[i].fs))
            /\ CallsOf("render") # {} =>
                  /\ FailedAdds = {}
                  /\ \A k \in CallsOf("render") : k > 1 + Len(run[i].fs)

C7_Witness ==
    \E i \in Inst :
        /\ Finished(i) /\ run[i].changed /\ Len(run[i].fs) > 1
        /\ CallsOf("render") # {}

\* C8: at most one run is in progress; every call logged while it runs is
\* its own, and it clears and renders at most once.
C8_RunsDoNotOverlap ==
    /\ Cardinality(Running) <= 1
    /\ \A k \in 1..Len(calls) : calls[k].inst \in Running
    /\ Cardinality(CallsOf("clear")) <= 1
    /\ Cardinality(CallsOf("render")) <= RenderSamples

\* A run is part-way through its rebuild while another instance is ready
\* and has its own files to run.
C8_Witness ==
    \E i, j \in Inst :
        /\ i # j /\ run[i].pc = "add" /\ run[i].idx > 1
        /\ luat[j] # 0 /\ ~loading[j]

\* C9 as stated: on a template error the message is shown and the output
\* shown before the run is left as it was.
C9_Original ==
    \A i \in Inst :
        Finished(i) /\ run[i].outcome = "err" =>
            error[i] = run[i].result.error /\ output[i] = run[i].outBefore

\* C9 amended: on a template error the message is shown and the output is
\* cleared.
C9_ErrorClearsOutput ==
    \A i \in Inst :
        Finished(i) /\ run[i].outcome = "err" =>
            error[i] = run[i].result.error /\ error[i] # Null /\ output[i] = ""

C9_Witness ==
    \E i \in Inst :
        Finished(i) /\ run[i].outcome = "err" /\ run[i].outBefore # ""

\* C10: a non-zero add_template status ends the run: the failing call is the
\* run's last call (no further add, no render) and the error shown names
\* the file.
C10_AddFailureAborts ==
    \A k \in FailedAdds :
        /\ k = Len(calls)
        /\ Finished(calls[k].inst)
        /\ error[calls[k].inst] = "Failed to add template: " \o calls[k].arg
        /\ output[calls[k].inst] = ""

\* The second file's add fails after the first was added.
C10_Witness ==
    \E k \in FailedAdds : calls[k].arg = OtherName /\ k = 3

\* C11 as stated: when an add_template failure aborts a run, the output
\* shown before the run is still shown.
C11_Original ==
    \A i \in Inst :
        Finished(i) /\ FailedAdds # {} => output[i] = run[i].outBefore

\* C11 amended: when an add_template failure aborts a run, the output is
\* cleared (and the failure's message is shown).
C11_AbortClearsOutput ==
    \A i \in Inst :
        Finished(i) /\ FailedAdds # {} => output[i] = "" /\ error[i] # Null

\* The aborted run followed one that had shown output.
C11_Witness ==
    \E i \in Inst :
        Finished(i) /\ FailedAdds # {} /\ run[i].outBefore # "" /\ run[i].errBefore = Null

\* C12: a run that follows a run whose registry rebuild was aborted (with or
\* without edits in between) is a fresh attempt: it takes the rebuild path,
\* clears the registry and re-adds the files, whatever they hash to.
C12_FreshAttemptAfterAbort ==
    \A i \in Inst :
        run[i].pc # "idle" /\ run[i].since \in {"aborted", "editedAborted"} =>
            /\ run[i].changed
            /\ Finished(i) => Len(calls) > 0 /\ Ops(calls)[1] = << "clear", "" >>

\* The events of the bridge call that ended last, or is in progress.
Ends == EventsOf("return") \cup EventsOf("throw")

SamePtr(a, b) == bridgeLog[a].ptr = bridgeLog[b].ptr

\* C13: every non-null handle luat_render_with_error returns is passed to
\* luat_free_string exactly once, after UTF8ToString copied its string and
\* before the bridge returns or throws; free is never called with the null
\* handle nor twice with one handle, and no buffer outlives the call.
C13_FreedExactlyOnce ==
    /\ \A f \in EventsOf("free") :
          /\ bridgeLog[f].ptr # 0
          /\ \A g \in EventsOf("free") : SamePtr(f, g) => g = f
          /\ \E c \in EventsOf("UTF8ToString") : c < f /\ SamePtr(c, f)
    /\ \A e \in Ends :
          bridgeLog[e].ptr # 0 => \E f \in EventsOf("free") : f < e /\ SamePtr(f, e)
    /\ bridgePc = "idle" =>
          /\ DOMAIN heap = {}
          /\ \A c \in EventsOf("ccall") :
                bridgeLog[c].ptr # 0 =>
                    \E f \in EventsOf("free"), e \in Ends :
                        c < f /\ f < e /\ SamePtr(c, f) /\ SamePtr(c, e)
    /\ DOMAIN heap \subseteq {resultPtr}

\* Two buffers were released and the parse of the second threw.
C13_Witness ==
    /\ bridgePc = "idle" /\ EventsOf("throw") # {}
    /\ Cardinality(EventsOf("free")) = 2

\* C14: a null handle makes the bridge return {success: false, html: null,
\* error: 'Internal error'} straight after the call (no UTF8ToString, no
\* free, no parse touches the null handle); the result differs from the
\* result of a template-level error, and it is what the run shows when the
\* last sample got the null handle.
C14_NullHandleIsInternalError ==
    /\ \A k \in 1..Len(bridgeLog) :
          bridgeLog[k].ptr = 0 =>
              /\ bridgeLog[k].op \in {"ccall", "return"}
              /\ bridgeLog[k].op = "return" => k > 1 /\ bridgeLog[k - 1] = Event("ccall", 0)
    /\ \A i \in Inst :
          ( /\ bridgePc = "idle" /\ run[i].pc \in {"render", "done"}
            /\ Len(bridgeLog) > 0 /\ bridgeLog[Len(bridgeLog)] = Event("return", 0) ) =>
              /\ run[i].result = [success |-> FALSE, html |-> Null, error |-> "Internal error"]
              /\ run[i].result # renderWithError(entryFile(run[i].fs).name, "err")
              /\ Finished(i) => error[i] = "Internal error" /\ output[i] = ""

\* The last sample got the null handle after an earlier one got a buffer.
C14_Witness ==
    \E i \in Inst :
        /\ Finished(i) /\ run[i].outcome = "null"
        /\ EventsOf("free") # {}
        /\ bridgeLog[Len(bridgeLog)] = Event("return", 0)

\* The message the load effect shows when the load promise is rejected.
LoadFailure == "Failed to load Luat: " \o loadError

\* C15: once the load promise is rejected, the script is not fetched again,
\* createModule and luat_init are not called again and the promise stays
\* rejected; every instance, also one mounted later, waits on that promise
\* and settles with the same failure, and none gets a module handle.
C15_NoRetryAfterFailure ==
    /\ [](luatLoading = "rejected" =>
            /\ luatModule = 0
            /\ \A i \in Inst : luat[i] = 0 /\ loadWait[i] # "module")
    /\ [][luatLoading = "rejected" =>
            /\ UNCHANGED << scriptTags, createCalls, initCalls, luatLoading,
                            loadError, luatModule, loadPc >>
            /\ \A i \in Inst :
                  /\ ~mounted[i] /\ mounted'[i] => loadWait'[i] = "shared"
                  /\ loadWait[i] # "settled" /\ loadWait'[i] = "settled" =>
                        error'[i] = LoadFailure /\ luat'[i] = 0 /\ ~loading'[i]]_vars

\* An instance mounted after the failure has settled with it.
C15_Witness ==
    \E i \in Inst :
        /\ since[i] = "late" /\ loadWait[i] = "settled"
        /\ error[i] = LoadFailure /\ scriptTags = 1

\* C16: an instance whose load failed keeps showing the load failure.
C16_LoadErrorPersists ==
    \A i \in Inst :
        loadWait[i] = "settled" /\ luatLoading = "rejected" => error[i] = LoadFailure

\* C17: when luat_init returns non-zero the singleton stays unset, the load
\* promise is rejected, no instance gets a module handle and every instance
\* whose wait has ended shows the load error (until its user resets it).
C17_InitFailureFailsLoad ==
    initResult \notin {Null, "0"} =>
        /\ luatModule = 0 /\ luatLoading = "rejected"
        /\ loadError = "Failed to initialize Luat engine"
        /\ \A i \in Inst :
              /\ luat[i] = 0 /\ loadWait[i] # "module"
              /\ loadWait[i] = "settled" /\ since[i] # "reset" =>
                    /\ ~loading[i]
                    /\ error[i] = "Failed to load Luat: Failed to initialize Luat engine"

\* Every instance waited on the load whose luat_init failed, and shows it.
C17_Witness ==
    /\ initResult = "1"
    /\ \A i \in Inst : loadWait[i] = "settled" /\ error[i] = LoadFailure

\* The instance has left loading with a module handle.
Ready(i) == ~loading[i] /\ luat[i] # 0

LoadFailures ==
    {"Failed to load Luat: " \o m :
        m \in {"Failed to load luat-wasm.js", "createModule failed",
               "Failed to initialize Luat engine"}}

\* C19: an instance is loading until the load promise it waits on settles
\* and its reaction runs; it then is ready (the singleton as its handle, no
\* error) or errored (no handle, the load failure shown), never both, and
\* never loading again; once the load promise has settled every mounted
\* instance eventually leaves loading.
C19_LoadingLeftOnce ==
    /\ [](\A i \in Inst :
            /\ loading[i] <=> loadWait[i] # "settled"
            /\ loading[i] => luat[i] = 0 /\ error[i] = Null
            /\ ~(luat[i] # 0 /\ error[i] \in LoadFailures))
    /\ [][\A i \in Inst :
            /\ loading'[i] => loading[i]
            /\ luat[i] # luat'[i] => loading[i] /\ ~loading'[i]
            /\ loading[i] /\ ~loading'[i] =>
                  \/ /\ luatLoading = "fulfilled"
                     /\ luat'[i] = luatModule /\ luat'[i] # 0 /\ error'[i] = Null
                  \/ /\ luatLoading = "rejected"
                     /\ luat'[i] = 0 /\ error'[i] = LoadFailure]_vars
    /\ \A i \in Inst :
          (mounted[i] /\ luatLoading \in {"fulfilled", "rejected"}) ~> ~loading[i]

\* One instance is ready; another, mounted when the module was there, is
\* still loading.
C19_Witness ==
    \E i, j \in Inst :
        /\ Ready(i) /\ error[i] = Null
        /\ loadWait[j] = "module" /\ loading[j]

\* C20 as stated: a run that no exception ended made at most one
\* clear_templates call and exactly one render call.
C20_Original ==
    \A i \in Inst :
        Finished(i) /\ FailedAdds = {} /\ EventsOf("throw") = {} =>
            /\ Cardinality(CallsOf("clear")) <= 1
            /\ Cardinality(CallsOf("render")) = 1

\* C20 amended: a run checks the cache first, rebuilds the registry at most
\* once and before any render call, and then makes RenderSamples render
\* calls for the entry, showing the result of the last; it makes none when
\* the rebuild was aborted, and stops at the call whose result does not
\* parse.
C20_RenderSamplesPerRun ==
    \A i \in Inst :
        Finished(i) =>
            /\ run[i].changed = codeChanged(run[i].lastBefore, run[i].hash)
            /\ CallsOf("clear") = IF run[i].changed THEN {1} ELSE {}
            /\ \A r \in CallsOf("render") :
                  /\ \A a \in CallsOf("clear") \cup CallsOf("add") : a < r
                  /\ calls[r].arg = entryFile(run[i].fs).name
            /\ IF FailedAdds # {}
               THEN CallsOf("render") = {}
               ELSE IF EventsOf("throw") # {}
               THEN /\ Cardinality(CallsOf("render")) \in 1..RenderSamples
                    /\ error[i] = "SyntaxError"
               ELSE /\ Cardinality(CallsOf("render")) = RenderSamples
                    /\ IF run[i].result.success
                       THEN output[i] = run[i].result.html /\ error[i] = Null
                       ELSE output[i] = "" /\ error[i] = run[i].result.error

\* A run rebuilt the registry and showed the HTML of its third sample.
C20_Witness ==
    \E i \in Inst :
        /\ Finished(i) /\ run[i].changed
        /\ Cardinality(CallsOf("render")) = 3 /\ EventsOf("throw") = {}
        /\ run[i].result.success /\ output[i] = run[i].result.html

\* The run in progress began with a clear_templates call that returned
\* non-zero.
ClearReturnedNonZero == Len(calls) > 0 /\ calls[1].op = "clear" /\ calls[1].rc # "0"

\* C21 as stated: a non-zero status of clear_templates ends the run with an
\* error: the call is the run's last, no add_template or render follows.
C21_Original ==
    \A i \in Running :
        ClearReturnedNonZero =>
            Len(calls) = 1 /\ Finished(i) /\ error[i] # Null

\* C21 amended: the status of clear_templates is dropped: after a non-zero
\* status the run raises nothing and goes on to add_template for every file
\* and, when those succeed, records the hash and renders.
C21_ClearStatusDropped ==
    \A i \in Running :
        ClearReturnedNonZero =>
            /\ Len(calls) = 1 =>
                  /\ run[i].pc = "add"
                  /\ error[i] = run[i].errBefore /\ output[i] = run[i].outBefore
            /\ Finished(i) /\ FailedAdds = {} =>
                  /\ Ops(calls) = FullCycle(run[i].fs) \o Renders(run[i].fs)
                  /\ lastCompiledRef[i] = run[i].hash
                  /\ run[i].result.success => error[i] = Null

\* A run whose clear_templates returned non-zero showed rendered HTML.
C21_Witness ==
    \E i \in Inst :
        /\ Finished(i) /\ ClearReturnedNonZero
        /\ run[i].result.success /\ output[i] = run[i].result.html /\ error[i] = Null

HasMain(fs) == \E m \in 1..Len(fs) : fs[m].name = MainName

\* C22: every render call of a run names 'main.luat' when the run's files
\* hold a file of that name, wherever it stands, and else names the first
\* file.
C22_EntryIsMainOrFirst ==
    \A k \in CallsOf("render") :
        LET fs == run[calls[k].inst].fs
        IN  /\ Len(fs) > 0
            /\ calls[k].arg = IF HasMain(fs) THEN MainName ELSE fs[1].name

\* main.luat is the second file and is the entry rendered.
C22_Witness ==
    \E k \in CallsOf("render") :
        /\ calls[k].arg = MainName
        /\ run[calls[k].inst].fs[1].name # MainName

\* C23: the files of an instance are never empty and the active tab is one
\* of them, whatever the props; the files a run took are not empty and its
\* entry file is one of them.
C23_FilesNeverEmpty ==
    \A i \in Inst :
        /\ Len(files[i]) > 0
        /\ Len(getInitialFiles(i)) > 0
        /\ activeTab[i] \in 1..Len(files[i])
        /\ run[i].pc # "idle" =>
              /\ Len(run[i].fs) > 0
              /\ \E k \in 1..Len(run[i].fs) : entryFile(run[i].fs) = run[i].fs[k]

\* Both props were omitted; the instance was edited, reset and run.
C23_Witness ==
    \E i \in Inst :
        /\ Props(i).code = "" /\ Props(i).files = << >>
        /\ since[i] = "ran" /\ Finished(i) /\ run[i].since = "reset"
        /\ files[i] # getInitialFiles(i)

NoRunYet(i) == run[i].pc = "idle" /\ since[i] \in {"start", "late", "reset"}

\* C24: the auto-run effect starts at most one run per instance, none
\* before the module handle is there and, with autoRun true, one as soon as
\* it is; with autoRun false it starts none, so every run is the user's.
C24_AutoRunOnce ==
    \A i \in Inst :
        /\ autoRuns[i] <= 1
        /\ luat[i] = 0 => autoRuns[i] = 0 /\ ~autoRunDue[i] /\ NoRunYet(i)
        /\ Props(i).autoRun /\ luat[i] # 0 =>
              IF autoRunDue[i] THEN autoRuns[i] = 0 /\ NoRunYet(i) ELSE autoRuns[i] = 1
        /\ ~Props(i).autoRun => autoRuns[i] = 0 /\ ~autoRunDue[i]

\* With autoRun false the user's click started the first run.
C24_Witness ==
    \E i \in Inst :
        /\ ~Props(i).autoRun /\ autoRuns[i] = 0
        /\ Finished(i) /\ run[i].since = "start"

\* C27: files that hash to the last compiled hash are the files that were
\* compiled, and a run that finds its hash compiled runs the compiled files.
C27_HashInjective ==
    \A i \in Inst :
        /\ lastCompiledRef[i] = getFilesHash(files[i]) => files[i] = compiledFiles[i]
        /\ run[i].pc # "idle" /\ ~run[i].changed => run[i].fs = compiledFiles[i]

Rendered(i) == \E k \in CallsOf("render") : calls[k].inst = i

\* No call of the run in progress failed and no instance shows an error.
EngineObeyed ==
    /\ \A k \in 1..Len(calls) : calls[k].rc \in {"0", "-"}
    /\ \A j \in Inst : error[j] = Null

\* C25: when an instance issues its render calls the registry holds exactly
\* the files the instance has, and the output it shows after a successful
\* run is the rendering of those files (no failure being reported).
C25_RendersOwnFiles ==
    \A i \in Inst :
        /\ EngineObeyed /\ (run[i].pc = "render" \/ (Finished(i) /\ Rendered(i))) =>
              run[i].fs = files[i] /\ registry = RegistryOf(files[i])
        /\ EngineObeyed /\ Finished(i) /\ run[i].result.success =>
              output[i] = EngineHtml(entryFile(files[i]).name, RegistryOf(files[i]))

\* C29: an error and a non-empty output are never shown together; a run
\* that succeeds shows its HTML and no error, a run that fails in any way
\* shows an error and an empty output.
C29_ErrorExcludesOutput ==
    \A i \in Inst :
        /\ error[i] # Null => output[i] = ""
        /\ Finished(i) =>
              IF run[i].result.success
              THEN output[i] = run[i].result.html /\ error[i] = Null
              ELSE output[i] = "" /\ error[i] # Null

\* An internal error followed a run that had shown output.
C29_Witness ==
    \E i \in Inst :
        /\ Finished(i) /\ run[i].outcome = "null"
        /\ run[i].outBefore # "" /\ error[i] = "Internal error"

\* C26: a reset leaves every file equal to the initial example data and the
\* first tab active, whichever tab was active and whatever was edited.
C26_ResetRestoresInitial ==
    [][\A i \in Inst :
          Reset(i) => files'[i] = getInitialFiles(i) /\ activeTab'[i] = 1]_vars

FilesEdited(i) == files'[i] # files[i] /\ ~Reset(i)

\* C28: a step that changes an instance's files other than a reset changes
\* the code of the file at the active tab and nothing else: the number,
\* order and names of the files and every other file's code are kept, and
\* so are the active tab, the last-compiled hash, the output and the error.
C28_EditChangesActiveFileOnly ==
    [][\A i \in Inst :
          FilesEdited(i) =>
              /\ Len(files'[i]) = Len(files[i])
              /\ \A k \in 1..Len(files[i]) :
                    /\ files'[i][k].name = files[i][k].name
                    /\ (files'[i][k].code # files[i][k].code) = (k = activeTab[i])
              /\ activeTab'[i] = activeTab[i]
              /\ lastCompiledRef'[i] = lastCompiledRef[i]
              /\ output'[i] = output[i]
              /\ error'[i] = error[i]]_vars

\* The second file was edited after a run that showed output; the first
\* file, the hash and the output are those of the run.
C28_Witness ==
    \E i \in Inst :
        /\ since[i] = "edited" /\ activeTab[i] = 2 /\ run[i].pc = "idle"
        /\ files[i][2] # compiledFiles[i][2] /\ files[i][1] = compiledFiles[i][1]
        /\ lastCompiledRef[i] = getFilesHash(compiledFiles[i])
        /\ output[i] # ""

\* C30: an instance never has more than one live editor view.
C30_OneLiveView == \A i \in Inst : liveViews[i] <= 1

====
